---------------------------- MODULE Spec2Model ----------------------------
(***************************************************************************)
(* A model of the OpenAPI -> MCP converter (package convert):              *)
(*   - the schema walker (processSchemaProperty / processSchemaItems /     *)
(*     processSchemaProperties) as a call stack over a schema graph, with  *)
(*     Go's visited maps kept in a heap because maps are passed by         *)
(*     reference;                                                          *)
(*   - the tool builder (Convert, convertOperation, GetOperationID);       *)
(*   - the request invoker (getArgs and the closure of newHandler).        *)
(* Strings whose characters matter (paths, tool names) are sequences of    *)
(* one-character strings.                                                  *)
(***************************************************************************)
EXTENDS Integers, Sequences, FiniteSets, TLC

VARIABLES
    schemas,      \* the schema graph of the loaded document: node -> Schema
    heap,         \* the visited maps allocated so far: map id -> set of titles
    stack,        \* the walker's call stack, innermost frame last
    walk,         \* "idle" | "running" | "done"
    walkResult,   \* the descriptor returned by the top-level call
    doc,          \* the parsed document: loaded, hasInfo, servers, paths
    options,      \* Converter.options
    tools,        \* the tools of the MCP server under construction: name -> tool
    added,        \* the AddTool calls made so far, in order
    pending,      \* the (path, method) pairs the range loops have not reached
    convert,      \* "idle" | "looping" | "returned" | "failed"
    build,        \* convertOperation applied to one operation: position and locals
    handler,      \* the closure of the tool being invoked: server, path, method
    call,         \* one invocation of the handler: its bag, position and locals
    calls         \* the other invocations in flight, each waiting to run on

walkVars == <<schemas, heap, stack, walk, walkResult>>

convertVars == <<doc, options, tools, added, pending, convert, build>>

invokeVars == <<handler, call, calls>>

vars == <<schemas, heap, stack, walk, walkResult,
          doc, options, tools, added, pending, convert, build,
          handler, call, calls>>

-----------------------------------------------------------------------------
(* Generic helpers for Go maps modelled as functions.                      *)

EmptyMap == <<>>

Put(m, k, v) == [x \in (DOMAIN m) \cup {k} |-> IF x = k THEN v ELSE m[x]]

Get(m, k, default) == IF k \in DOMAIN m THEN m[k] ELSE default

\* the orders in which a range loop may visit the keys of a Go map
Orders(keys) ==
    {o \in [1..Cardinality(keys) -> keys] :
        \A i, j \in 1..Cardinality(keys) : i # j => o[i] # o[j]}

-----------------------------------------------------------------------------
(* The schema graph.                                                       *)

NumNodes == 3

Nodes == 1..NumNodes
None == 0
Root == 1

Titles == {"", "A", "B"}
TypeNames == {"", "object", "array"}       \* "" is a nil schema.Type
PropNames == {"p", "q"}
ListSlots == {"oneOf", "anyOf", "allOf"}
RefSlots == {"items", "not", "additionalProperties"}
Slots == PropNames \cup ListSlots \cup RefSlots

Edges == [src : Nodes, slot : Slots, dst : Nodes]

\* The edge lists of the model's schema graphs: at most two edges (the least
\* that gives two sibling references or a cycle over two nodes), every edge
\* starting at the root or at the target of an earlier edge, and no
\* single-valued slot set twice.
EdgeCounts == {0, 1, 2}

EdgeLists ==
    UNION {
        {es \in [1..k -> Edges] :
            /\ \A i \in 1..k :
                  \/ es[i].src = Root
                  \/ \E j \in 1..(i-1) : es[j].dst = es[i].src
            /\ \A i, j \in 1..k :
                  (i < j /\ es[i].src = es[j].src /\ es[i].slot = es[j].slot)
                     => es[i].slot \in ListSlots}
        : k \in EdgeCounts}

RECURSIVE Targets(_, _, _)
\* the targets of node n's edges in slot s, in list order
Targets(es, n, s) ==
    IF es = <<>> THEN <<>>
    ELSE IF Head(es).src = n /\ Head(es).slot = s
         THEN <<Head(es).dst>> \o Targets(Tail(es), n, s)
         ELSE Targets(Tail(es), n, s)

RefOf(es, n, s) == IF Targets(es, n, s) = <<>> THEN None ELSE Targets(es, n, s)[1]

Reached(es) == {Root} \cup {es[i].dst : i \in DOMAIN es}

Schema(es, n, title, type) ==
    [Title |-> title,
     Type |-> type,
     Properties |-> [name \in {s \in PropNames : Targets(es, n, s) # <<>>}
                        |-> Targets(es, n, name)[1]],
     Items |-> RefOf(es, n, "items"),
     OneOf |-> Targets(es, n, "oneOf"),
     AnyOf |-> Targets(es, n, "anyOf"),
     AllOf |-> Targets(es, n, "allOf"),
     Not |-> RefOf(es, n, "not"),
     AdditionalProperties |-> RefOf(es, n, "additionalProperties")]

HasWalkedChildren(es, n) ==
    \E i \in DOMAIN es : es[i].src = n /\ es[i].slot \in PropNames \cup {"items"}

\* The documents of the model.  A node no edge reaches has no title, and a
\* node without properties or items has no type: neither choice is read by
\* the walk.
TitleChoices(es) ==
    {t \in [Nodes -> Titles] : \A n \in Nodes \ Reached(es) : t[n] = ""}

TypeChoices(es) ==
    {t \in [Nodes -> TypeNames] :
        \A n \in Nodes : ~HasWalkedChildren(es, n) => t[n] = ""}

Document(es, ti, ty) == [n \in Nodes |-> Schema(es, n, ti[n], ty[n])]

-----------------------------------------------------------------------------
(* The schema walker.                                                      *)
(* A frame is one activation of processSchemaProperty ("property"),        *)
(* processSchemaItems ("items") or processSchemaProperties ("properties"). *)
(*   visited : the id of the map the activation uses as `visited`          *)
(*   entry   : the contents of the map it was called with, at the call     *)
(*   stub    : the activation returned the circular-reference descriptor   *)
(*   dest    : where the caller stores the returned descriptor             *)
(*   comp    : the composition children still to walk, in code order       *)
(*   props   : the property names still to walk (Go ranges over the map    *)
(*             in no fixed order)                                          *)
(*   items   : the item schema still to walk, or None                      *)
(*   property: the descriptor built so far                                 *)

TopDest == [key |-> "return", name |-> ""]

RECURSIVE Tagged(_, _)
Tagged(key, nodes) ==
    IF nodes = <<>> THEN <<>>
    ELSE <<[key |-> key, child |-> Head(nodes)]>> \o Tagged(key, Tail(nodes))

RefChild(key, n) == IF n = None THEN <<>> ELSE <<[key |-> key, child |-> n]>>

\* part_000:687-725, 794-799: oneOf, anyOf, allOf, not, additionalProperties
CompositionChildren(s) ==
    Tagged("oneOf", s.OneOf) \o Tagged("anyOf", s.AnyOf) \o Tagged("allOf", s.AllOf)
        \o RefChild("not", s.Not)
        \o RefChild("additionalProperties", s.AdditionalProperties)

CircularReference(title) ==
    [type |-> "reference",
     description |-> <<"Circular reference to ", title>>,
     title |-> title]

\* part_000:662-669: the scalar entries the model keeps
BaseProperty(s) ==
    LET withType == IF s.Type # "" THEN Put(EmptyMap, "type", s.Type) ELSE EmptyMap
    IN  IF s.Title # "" THEN Put(withType, "title", s.Title) ELSE withType

\* part_000:812: the nested properties are walked only for a declared object
WalksProperties(s) == s.Type = "object" /\ DOMAIN s.Properties # {}

\* part_000:823: the items are walked only for a declared array
WalksItems(s) == s.Type = "array" /\ s.Items # None

\* a check that takes any titled schema for a repetition
IsCircularAnyTitle(s, visitedSet) == s.Title # ""

\* part_000:642-652
IsCircular(s, visitedSet) == s.Title # "" /\ s.Title \in visitedSet

\* part_000:653: visited[refKey] = true writes the map the caller passed
MarkVisited(h, ref, title) == [h EXCEPT ![ref] = @ \cup {title}]

\* part_000:655-659: visitedCopy, a new map holding what the marked map holds
CopyVisited(h, ref) == Append(h, h[ref])

\* The frame processSchemaProperty(node, ref) starts with, and the heap after
\* its first lines.
PropertyFrame(node, ref, dest, h) ==
    LET s == schemas[node] IN
    IF IsCircular(s, h[ref])
    THEN [fn |-> "property", node |-> node, visited |-> ref, entry |-> h[ref],
          stub |-> TRUE, dest |-> dest, comp |-> <<>>, props |-> {},
          items |-> None, property |-> CircularReference(s.Title)]
    ELSE [fn |-> "property", node |-> node,
          visited |-> IF s.Title # "" THEN Len(h) + 1 ELSE ref,
          entry |-> h[ref],
          stub |-> FALSE, dest |-> dest,
          comp |-> CompositionChildren(s),
          props |-> IF WalksProperties(s) THEN DOMAIN s.Properties ELSE {},
          items |-> IF WalksItems(s) THEN s.Items ELSE None,
          property |-> IF WalksProperties(s)
                         THEN Put(BaseProperty(s), "properties", EmptyMap)
                         ELSE BaseProperty(s)]

\* a first part that marks a node without title under the empty title
PropertyHeapMarkingUntitled(node, ref, h) ==
    LET s == schemas[node] IN
    IF IsCircular(s, h[ref]) THEN h
    ELSE CopyVisited(MarkVisited(h, ref, s.Title), ref)

PropertyHeap(node, ref, h) ==
    LET s == schemas[node] IN
    IF IsCircular(s, h[ref]) \/ s.Title = "" THEN h
    ELSE CopyVisited(MarkVisited(h, ref, s.Title), ref)

\* part_000:595-623
ItemsFrame(node, ref, dest, h) ==
    LET s == schemas[node]
        item == IF s.Type # "" THEN Put(EmptyMap, "type", s.Type) ELSE EmptyMap
    IN  [fn |-> "items", node |-> node, visited |-> ref, entry |-> h[ref],
         stub |-> FALSE, dest |-> dest, comp |-> <<>>,
         props |-> DOMAIN s.Properties,
         items |-> s.Items,
         property |-> IF DOMAIN s.Properties # {}
                        THEN Put(item, "properties", EmptyMap) ELSE item]

\* part_000:626-636
PropertiesFrame(node, ref, dest, h) ==
    [fn |-> "properties", node |-> node, visited |-> ref, entry |-> h[ref],
     stub |-> FALSE, dest |-> dest, comp |-> <<>>,
     props |-> DOMAIN schemas[node].Properties,
     items |-> None,
     property |-> Put(EmptyMap, "properties", EmptyMap)]

Top == stack[Len(stack)]

SetTop(f) == [stack EXCEPT ![Len(stack)] = f]

\* The recursion is deterministic in (function, node, contents of visited at
\* the call): an activation nested in one with the same three repeats it
\* forever.  The model stops pushing there; the program overflows its stack.
Diverges ==
    \E i, j \in 1..Len(stack) :
        /\ i < j
        /\ stack[i].fn = stack[j].fn
        /\ stack[i].node = stack[j].node
        /\ stack[i].entry = stack[j].entry

CanStep == walk = "running" /\ stack # <<>> /\ ~Diverges

\* The callers of the walker, each with make(map[string]bool):
\* part_000:376,387 (generateResponseDescription)
StartProperty ==
    /\ walk = "idle"
    /\ heap' = PropertyHeap(Root, 1, <<{}>>)
    /\ stack' = <<PropertyFrame(Root, 1, TopDest, <<{}>>)>>
    /\ walk' = "running"
    /\ UNCHANGED <<schemas, walkResult, convertVars, invokeVars>>

\* part_000:488,547 (an array body or parameter: the item schema is the root)
StartItems ==
    /\ walk = "idle"
    /\ heap' = <<{}>>
    /\ stack' = <<ItemsFrame(Root, 1, TopDest, <<{}>>)>>
    /\ walk' = "running"
    /\ UNCHANGED <<schemas, walkResult, convertVars, invokeVars>>

\* part_000:486-491 (a body that is no array with items and is an object or
\* has properties), 549 (an object parameter with properties)
CallsProcessSchemaProperties(s) ==
    IF s.Type = "" THEN FALSE
    ELSE IF s.Type = "array" /\ s.Items # None THEN FALSE
    ELSE IF s.Type = "object" THEN TRUE
    ELSE DOMAIN s.Properties # {}

StartProperties ==
    /\ walk = "idle"
    /\ CallsProcessSchemaProperties(schemas[Root])
    /\ heap' = <<{}>>
    /\ stack' = <<PropertiesFrame(Root, 1, TopDest, <<{}>>)>>
    /\ walk' = "running"
    /\ UNCHANGED <<schemas, walkResult, convertVars, invokeVars>>

\* The next composition child: c.processSchemaProperty(child, visited)
CallComposition ==
    /\ CanStep
    /\ Top.comp # <<>>
    /\ LET c == Head(Top.comp)
           dest == [key |-> c.key, name |-> ""]
       IN  /\ heap' = PropertyHeap(c.child, Top.visited, heap)
           /\ stack' = Append(SetTop([Top EXCEPT !.comp = Tail(@)]),
                              PropertyFrame(c.child, Top.visited, dest, heap))
    /\ UNCHANGED <<schemas, walk, walkResult, convertVars, invokeVars>>

\* One turn of `for propName, propRef := range schema.Properties`
CallProperty ==
    /\ CanStep
    /\ Top.comp = <<>>
    /\ \E name \in Top.props :
         LET child == schemas[Top.node].Properties[name]
             dest == [key |-> "properties", name |-> name]
         IN  /\ heap' = PropertyHeap(child, Top.visited, heap)
             /\ stack' = Append(SetTop([Top EXCEPT !.props = @ \ {name}]),
                                PropertyFrame(child, Top.visited, dest, heap))
    /\ UNCHANGED <<schemas, walk, walkResult, convertVars, invokeVars>>

\* c.processSchemaItems(schema.Items.Value, visited)
CallItems ==
    /\ CanStep
    /\ Top.comp = <<>>
    /\ Top.props = {}
    /\ Top.items # None
    /\ LET dest == [key |-> "items", name |-> ""]
       IN  stack' = Append(SetTop([Top EXCEPT !.items = None]),
                           ItemsFrame(Top.items, Top.visited, dest, heap))
    /\ UNCHANGED <<schemas, heap, walk, walkResult, convertVars, invokeVars>>

\* What the activation returns
Returned(f) == IF f.fn = "properties" THEN f.property["properties"] ELSE f.property

\* The caller's descriptor after it stores the callee's result r at dest
Store(property, dest, r) ==
    CASE dest.key \in ListSlots ->
            Put(property, dest.key, Append(Get(property, dest.key, <<>>), r))
      [] dest.key = "properties" ->
            Put(property, "properties", Put(property["properties"], dest.name, r))
      [] OTHER -> Put(property, dest.key, r)

Return ==
    /\ CanStep
    /\ Top.comp = <<>>
    /\ Top.props = {}
    /\ Top.items = None
    /\ IF Len(stack) = 1
       THEN /\ stack' = <<>>
            /\ walk' = "done"
            /\ walkResult' = Returned(Top)
       ELSE /\ LET caller == stack[Len(stack) - 1]
                   rest == SubSeq(stack, 1, Len(stack) - 2)
               IN  stack' = Append(rest,
                        [caller EXCEPT !.property = Store(@, Top.dest, Returned(Top))])
            /\ UNCHANGED <<walk, walkResult>>
    /\ UNCHANGED <<schemas, heap, convertVars, invokeVars>>

NoBuild == [pc |-> "none"]

ConvertIdle ==
    /\ build = NoBuild
    /\ doc = [loaded |-> FALSE, hasInfo |-> FALSE, servers |-> <<>>, paths |-> EmptyMap]
    /\ options = [ToolNamePrefix |-> <<>>]
    /\ tools = EmptyMap
    /\ added = <<>>
    /\ pending = {}
    /\ convert = "idle"

NoCall == [pc |-> "none"]

InvokeIdle ==
    /\ handler = [server |-> [URL |-> <<>>], path |-> <<>>, method |-> ""]
    /\ call = NoCall
    /\ calls = <<>>

WalkIdle ==
    /\ schemas = [n \in Nodes |-> Schema(<<>>, n, "", "")]
    /\ heap = <<>>
    /\ stack = <<>>
    /\ walk = "idle"
    /\ walkResult = EmptyMap

WalkInit ==
    /\ \E es \in EdgeLists : \E ti \in TitleChoices(es) : \E ty \in TypeChoices(es) :
          schemas = Document(es, ti, ty)
    /\ heap = <<>>
    /\ stack = <<>>
    /\ walk = "idle"
    /\ walkResult = EmptyMap
    /\ ConvertIdle
    /\ InvokeIdle

WalkNext ==
    \/ StartProperty
    \/ StartItems
    \/ StartProperties
    \/ CallComposition
    \/ CallProperty
    \/ CallItems
    \/ Return

SpecWalk == WalkInit /\ [][WalkNext]_vars

-----------------------------------------------------------------------------
(* Strings.  A string whose characters matter is a sequence of tokens: the *)
(* separators "/", "_", "{", "}" are tokens of their own and a run of      *)
(* other characters is one token.                                          *)

RECURSIVE TrimLeft(_, _)
TrimLeft(s, c) == IF s # <<>> /\ Head(s) = c THEN TrimLeft(Tail(s), c) ELSE s

RECURSIVE TrimRight(_, _)
TrimRight(s, c) ==
    IF s # <<>> /\ s[Len(s)] = c THEN TrimRight(SubSeq(s, 1, Len(s) - 1), c) ELSE s

\* strings.Trim(s, c)
Trim(s, c) == TrimRight(TrimLeft(s, c), c)

RECURSIVE Split(_, _)
\* strings.Split(s, sep): the pieces between the separators, at least one
Split(s, sep) ==
    IF \E i \in 1..Len(s) : s[i] = sep
    THEN LET i == CHOOSE k \in 1..Len(s) :
                     s[k] = sep /\ \A j \in 1..(k - 1) : s[j] # sep
         IN  <<SubSeq(s, 1, i - 1)>> \o Split(SubSeq(s, i + 1, Len(s)), sep)
    ELSE <<s>>

RECURSIVE Join(_, _)
\* strings.Join(parts, sep)
Join(parts, sep) ==
    IF parts = <<>> THEN <<>>
    ELSE IF Len(parts) = 1 THEN parts[1]
    ELSE parts[1] \o <<sep>> \o Join(Tail(parts), sep)

\* strings.ReplaceAll(s, c, "")
Remove(s, c) == SelectSeq(s, LAMBDA x : x # c)

\* strings.ToLower and strings.ToUpper on the method names
ToLower(m) ==
    CASE m = "GET" -> "get" [] m = "POST" -> "post" [] m = "PUT" -> "put"
      [] m = "DELETE" -> "delete" [] m = "OPTIONS" -> "options"
      [] m = "HEAD" -> "head" [] m = "PATCH" -> "patch" [] m = "TRACE" -> "trace"
      [] OTHER -> m

ToUpper(m) ==
    CASE m = "get" -> "GET" [] m = "post" -> "POST" [] m = "put" -> "PUT"
      [] m = "delete" -> "DELETE" [] m = "options" -> "OPTIONS"
      [] m = "head" -> "HEAD" [] m = "patch" -> "PATCH" [] m = "trace" -> "TRACE"
      [] OTHER -> m

-----------------------------------------------------------------------------
(* The tool builder.                                                       *)

MaxPaths == 2
MaxServers == 2

\* A URL is scheme, "://", host, and then the tokens of its path.
ServerURLs == { <<"https", "://", "api.example.com">>,
                <<"https", "://", "b.example.com">> }

PathPool ==
    { <<"/">>,
      <<"/", "a">>,
      <<"/", "a", "/", "b">>,
      <<"/", "a", "_", "b">>,
      <<"/", "{", "a", "}">> }

\* A path item is a function from its non-nil method fields to operations.
\* The path items of the model: no operation, a GET without or with an
\* explicit operation id, a GET and a POST without ids.
PathItems ==
    { EmptyMap,
      Put(EmptyMap, "Get", [OperationID |-> <<>>]),
      Put(EmptyMap, "Get", [OperationID |-> <<"get", "_", "a">>]),
      Put(Put(EmptyMap, "Get", [OperationID |-> <<>>]),
          "Post", [OperationID |-> <<>>]) }

ServerLists ==
    UNION {[1..k -> [URL : ServerURLs]] : k \in 0..MaxServers}

ToolNamePrefixes == { <<>>, <<"t", "_">> }

\* part_000:246-275
getOperations(pathItem) ==
    LET key(field) ==
            CASE field = "Get" -> "get" [] field = "Post" -> "post"
              [] field = "Put" -> "put" [] field = "Delete" -> "delete"
              [] field = "Options" -> "options" [] field = "Head" -> "head"
              [] field = "Patch" -> "patch" [] field = "Trace" -> "trace"
        field(k) == CHOOSE f \in DOMAIN pathItem : key(f) = k
    IN  [k \in {key(f) : f \in DOMAIN pathItem} |-> pathItem[field(k)]]

\* part_000:1000-1017
GetOperationID(path, method, operation) ==
    IF operation.OperationID # <<>> THEN operation.OperationID
    ELSE LET pathParts == Split(Trim(path, "/"), "/")
             pathName == IF Len(pathParts) > 0
                           THEN Remove(Remove(Join(pathParts, "_"), "{"), "}")
                           ELSE <<"root">>
         IN  <<ToLower(method), "_">> \o pathName

NoDefault == <<>>

\* part_000:299-323: the properties mcp.WithString gives the argument
ServerAddrOptionRequiredWhenOne(servers) ==
    [name |-> <<"openapi", "|", "server_addr">>, type |-> "string",
     description |-> "Server address to connect to",
     required |-> TRUE,
     default |-> NoDefault,
     enum |-> [i \in 1..Len(servers) |-> servers[i].URL]]

ServerAddrOption(servers) ==
    IF Len(servers) = 0
    THEN [name |-> <<"openapi", "|", "server_addr">>, type |-> "string",
          description |-> "Server address to connect to",
          required |-> TRUE, default |-> NoDefault, enum |-> <<>>]
    ELSE IF Len(servers) = 1
    THEN [name |-> <<"openapi", "|", "server_addr">>, type |-> "string",
          description |-> "Server address to connect to",
          required |-> FALSE,
          default |-> <<servers[1].URL>>,
          enum |-> [i \in 1..Len(servers) |-> servers[i].URL]]
    ELSE [name |-> <<"openapi", "|", "server_addr">>, type |-> "string",
          description |-> "Server address to connect to",
          required |-> TRUE,
          default |-> NoDefault,
          enum |-> [i \in 1..Len(servers) |-> servers[i].URL]]

\* part_000:279-283
ToolName(path, method, operation) ==
    IF options.ToolNamePrefix # <<>>
    THEN options.ToolNamePrefix \o GetOperationID(path, method, operation)
    ELSE GetOperationID(path, method, operation)

\* part_000:278-349
convertOperation(path, method, operation) ==
    [name |-> ToolName(path, method, operation),
     args |-> <<ServerAddrOption(doc.servers)>>]

NoServer == [URL |-> <<>>]

\* part_000:63-67: the server the handlers capture; NoServer is the nil pointer
DeclaredServer(servers) == IF Len(servers) = 1 THEN servers[1] ELSE NoServer

\* part_000:90: the closure newHandler returns
newHandler(server, path, method) == [server |-> server, path |-> path, method |-> method]

\* part_000:70-72: the (path, method) pairs the two range loops visit
Operations ==
    UNION {{[path |-> p, method |-> m] : m \in DOMAIN getOperations(doc.paths[p])}
              : p \in DOMAIN doc.paths}

\* The inner loop ends for one path before the outer loop takes the next.
InLoopOrder(o) ==
    IF added = <<>> THEN TRUE
    ELSE IF added[Len(added)].path = o.path THEN TRUE
    ELSE \A q \in pending : q.path # added[Len(added)].path

\* part_000:41-67
ConvertStart ==
    /\ convert = "idle"
    /\ IF ~doc.loaded \/ ~doc.hasInfo
       THEN /\ convert' = "failed"
            /\ UNCHANGED pending
       ELSE /\ convert' = "looping"
            /\ pending' = Operations
    /\ UNCHANGED <<doc, options, tools, added, build, walkVars, invokeVars>>

\* part_000:70-85: one turn of the inner loop.  The methods of one path are
\* taken together; the order of paths and of methods is Go's map order.
ConvertOperation ==
    /\ convert = "looping"
    /\ \E o \in pending :
         /\ InLoopOrder(o)
         /\ LET operation == getOperations(doc.paths[o.path])[o.method]
                tool == convertOperation(o.path, o.method, operation)
                h == newHandler(DeclaredServer(doc.servers), o.path, o.method)
            IN  /\ tools' = Put(tools, tool.name, [tool |-> tool, handler |-> h])
                /\ added' = Append(added, [path |-> o.path, method |-> o.method,
                                           tool |-> tool])
         /\ pending' = pending \ {o}
    /\ UNCHANGED <<doc, options, convert, build, walkVars, invokeVars>>

\* a return that does not wait for the loops to end
ConvertReturnEarly ==
    /\ convert = "looping"
    /\ convert' = "returned"
    /\ UNCHANGED <<doc, options, tools, added, pending, build, walkVars, invokeVars>>

\* part_000:87
ConvertReturn ==
    /\ convert = "looping"
    /\ pending = {}
    /\ convert' = "returned"
    /\ UNCHANGED <<doc, options, tools, added, pending, build, walkVars, invokeVars>>

PathMaps ==
    UNION {[ps -> PathItems] :
             ps \in {x \in SUBSET PathPool : Cardinality(x) <= MaxPaths}}

ConvertInit ==
    /\ \/ doc = [loaded |-> FALSE, hasInfo |-> FALSE, servers |-> <<>>,
                 paths |-> EmptyMap]
       \/ \E sv \in ServerLists, pm \in PathMaps, info \in BOOLEAN :
            doc = [loaded |-> TRUE, hasInfo |-> info, servers |-> sv, paths |-> pm]
    /\ options \in [ToolNamePrefix : ToolNamePrefixes]
    /\ tools = EmptyMap
    /\ added = <<>>
    /\ pending = {}
    /\ convert = "idle"
    /\ build = NoBuild
    /\ WalkIdle
    /\ InvokeIdle

ConvertNext ==
    \/ ConvertStart
    \/ ConvertOperation
    \/ ConvertReturn

SpecConvert == ConvertInit /\ [][ConvertNext]_vars

-----------------------------------------------------------------------------
(* The request invoker.                                                    *)

MaxBagKeys == 3

\* The values of an argument bag, as encoding/json decodes them.  The text
\* of a string or number is a token sequence; an object is a sequence of
\* [key, value] in key order.
Str(t) == [kind |-> "string", val |-> t]
Num(t) == [kind |-> "number", val |-> t]
Obj(fields) == [kind |-> "object", val |-> fields]
Nil == [kind |-> "nil", val |-> <<>>]

RECURSIVE FormatV(_)
\* fmt.Sprintf("%v", v)
FormatV(v) ==
    IF v.kind = "object"
    THEN LET RECURSIVE fields(_)
             fields(fs) ==
                IF fs = <<>> THEN <<>>
                ELSE <<fs[1].key, ":">> \o FormatV(fs[1].value)
                        \o (IF Len(fs) > 1 THEN <<" ">> ELSE <<>>) \o fields(Tail(fs))
         IN  <<"map[">> \o fields(v.val) \o <<"]">>
    ELSE IF v.kind = "nil" THEN <<"<nil>">>
    ELSE v.val

RECURSIVE JSONMarshal(_)
\* json.Marshal(v)
JSONMarshal(v) ==
    IF v.kind = "object"
    THEN LET RECURSIVE fields(_)
             fields(fs) ==
                IF fs = <<>> THEN <<>>
                ELSE <<"\"", fs[1].key, "\"", ":">> \o JSONMarshal(fs[1].value)
                        \o (IF Len(fs) > 1 THEN <<",">> ELSE <<>>) \o fields(Tail(fs))
         IN  <<"{">> \o fields(v.val) \o <<"}">>
    ELSE IF v.kind = "string" THEN <<"\"">> \o v.val \o <<"\"">>
    ELSE IF v.kind = "nil" THEN <<"null">>
    ELSE v.val

RECURSIVE ReplaceAll(_, _, _)
\* strings.ReplaceAll(s, old, new), old not empty
ReplaceAll(s, old, new) ==
    IF Len(s) < Len(old) THEN s
    ELSE IF SubSeq(s, 1, Len(old)) = old
         THEN new \o ReplaceAll(SubSeq(s, Len(old) + 1, Len(s)), old, new)
         ELSE <<Head(s)>> \o ReplaceAll(Tail(s), old, new)

HasPrefix(s, prefix) ==
    Len(s) >= Len(prefix) /\ SubSeq(s, 1, Len(prefix)) = prefix

TrimPrefix(s, prefix) ==
    IF HasPrefix(s, prefix) THEN SubSeq(s, Len(prefix) + 1, Len(s)) ELSE s

\* The keys and values the bags of the model are drawn from.
SampleObject == Obj(<<[key |-> "name", value |-> Str(<<"a">>)]>>)

BagPool ==
    << [key |-> <<"openapi", "|", "server_addr">>,
        values |-> <<Str(<<"https", "://", "b.example.com">>), Str(<<"://", "bad">>)>>],
       [key |-> <<"openapi", "|", "auth_token">>,
        values |-> <<Str(<<"tok">>), Num(<<"42">>)>>],
       [key |-> <<"openapi", "|", "auth_username">>, values |-> <<Str(<<"user">>)>>],
       [key |-> <<"openapi", "|", "auth_password">>, values |-> <<Str(<<"pw">>)>>],
       [key |-> <<"openapi", "|", "auth_oauth2_token">>, values |-> <<Str(<<"otok">>)>>],
       [key |-> <<"openapi", "|", "auth_apikey">>, values |-> <<Str(<<"key">>)>>],
       [key |-> <<"body">>, values |-> <<SampleObject, Nil>>],
       [key |-> <<"query", "|", "q">>, values |-> <<Num(<<"5">>)>>],
       [key |-> <<"path", "|", "x">>,
        values |-> <<Str(<<"42">>), Str(<<"{", "y", "}">>)>>],
       [key |-> <<"path", "|", "y">>, values |-> <<Str(<<"7">>)>>],
       [key |-> <<"header", "|", "content-type">>, values |-> <<Str(<<"text/plain">>)>>],
       [key |-> <<"header", "|", "X-Trace">>, values |-> <<Str(<<"t">>)>>],
       [key |-> <<"formData", "|", "f">>, values |-> <<Str(<<"v">>), SampleObject>>],
       [key |-> <<"cookie", "|", "c">>, values |-> <<Str(<<"c">>)>>] >>

PoolIndex(k) == CHOOSE i \in DOMAIN BagPool : BagPool[i].key = k

\* The bag holding the keys of pool entries `chosen`, with the second value
\* of the entries in `second`
Bag(chosen, second) ==
    [k \in {BagPool[i].key : i \in chosen} |->
        IF PoolIndex(k) \in second THEN BagPool[PoolIndex(k)].values[2]
        ELSE BagPool[PoolIndex(k)].values[1]]

\* The operations the invoked tools belong to
InvokedOperations ==
    { [path |-> <<"/", "pets", "/", "{", "x", "}">>, method |-> "get"],
      [path |-> <<"/", "{", "x", "}", "/", "{", "y", "}">>, method |-> "post"] }

\* part_000:207-212
EmptyArgs ==
    [ServerAddr |-> <<>>, AuthToken |-> <<>>, AuthUsername |-> <<>>,
     AuthPassword |-> <<>>, AuthOAuth2Token |-> <<>>,
     Headers |-> EmptyMap, Body |-> Nil, Query |-> EmptyMap, Path |-> EmptyMap,
     Forms |-> EmptyMap]

\* part_000:218-228: v.(string) panics on a value that is no string
AssertionPanics(k, v) == HasPrefix(k, <<"openapi", "|">>) /\ v.kind # "string"

\* part_000:214-240: one turn of the loop of getArgs
ParseArg(arg, k, v) ==
    IF HasPrefix(k, <<"openapi", "|">>)
    THEN LET sub == TrimPrefix(k, <<"openapi", "|">>) IN
         IF sub = <<"server_addr">> THEN [arg EXCEPT !.ServerAddr = v.val]
         ELSE IF sub = <<"auth_token">> THEN [arg EXCEPT !.AuthToken = v.val]
         ELSE IF sub = <<"auth_username">> THEN [arg EXCEPT !.AuthUsername = v.val]
         ELSE IF sub = <<"auth_password">> THEN [arg EXCEPT !.AuthPassword = v.val]
         ELSE IF sub = <<"auth_oauth2_token">> THEN [arg EXCEPT !.AuthOAuth2Token = v.val]
         ELSE [arg EXCEPT !.AuthToken = v.val]
    ELSE IF k = <<"body">> THEN [arg EXCEPT !.Body = v]
    ELSE IF HasPrefix(k, <<"query", "|">>)
         THEN [arg EXCEPT !.Query = Put(@, TrimPrefix(k, <<"query", "|">>), v)]
    ELSE IF HasPrefix(k, <<"path", "|">>)
         THEN [arg EXCEPT !.Path = Put(@, TrimPrefix(k, <<"path", "|">>), v)]
    ELSE IF HasPrefix(k, <<"header", "|">>)
         THEN [arg EXCEPT !.Headers = Put(@, TrimPrefix(k, <<"header", "|">>), v)]
    ELSE IF HasPrefix(k, <<"formData", "|">>)
         THEN [arg EXCEPT !.Forms = Put(@, TrimPrefix(k, <<"formData", "|">>), v)]
    ELSE arg

\* part_000:95-98
ServerURL(arg, server) ==
    IF arg.ServerAddr = <<>> /\ server # NoServer THEN server.URL ELSE arg.ServerAddr

\* part_000:103: one turn of the loop over arg.Path
Substitute(finalPath, paramName, paramValue) ==
    ReplaceAll(finalPath, <<"{">> \o paramName \o <<"}">>, FormatV(paramValue))

\* net/url: the parts of a URL string.  A string that starts with "://"
\* has no scheme and does not parse.
ParseURL(u) ==
    IF u = <<>> THEN [ok |-> TRUE, scheme |-> "", host |-> "", path |-> <<>>]
    ELSE IF Head(u) = "://" THEN [ok |-> FALSE, scheme |-> "", host |-> "", path |-> <<>>]
    ELSE IF Len(u) >= 3 /\ u[2] = "://"
         THEN [ok |-> TRUE, scheme |-> u[1], host |-> u[3], path |-> SubSeq(u, 4, Len(u))]
    ELSE [ok |-> TRUE, scheme |-> "", host |-> "", path |-> u]

RECURSIVE CleanSegments(_, _)
\* path.Clean on the segments of a rooted path: empty and "." segments go,
\* ".." takes the segment before it
CleanSegments(segs, kept) ==
    IF segs = <<>> THEN kept
    ELSE IF Head(segs) = <<>> \/ Head(segs) = <<".">>
         THEN CleanSegments(Tail(segs), kept)
    ELSE IF Head(segs) = <<"..">>
         THEN CleanSegments(Tail(segs),
                            IF kept = <<>> THEN kept ELSE SubSeq(kept, 1, Len(kept) - 1))
    ELSE CleanSegments(Tail(segs), Append(kept, Head(segs)))

\* The escaping URL.String and url.QueryEscape apply to the tokens of the model
EscapeToken(t) ==
    CASE t = "{" -> "%7B" [] t = "}" -> "%7D" [] t = "\"" -> "%22"
      [] t = ":" -> "%3A" [] t = " " -> "+" [] t = "map[" -> "map%5B"
      [] t = "]" -> "%5D" [] t = "text/plain" -> "text%2Fplain"
      [] OTHER -> t

Escape(s) == [i \in 1..Len(s) |-> EscapeToken(s[i])]

\* The path part keeps "/" and escapes the rest
EscapePath(s) == [i \in 1..Len(s) |-> IF s[i] = "/" THEN "/" ELSE EscapeToken(s[i])]

\* url.JoinPath(base, elem) followed by url.Parse of the result
JoinPath(base, elem) ==
    LET u == ParseURL(base)
        segs == CleanSegments(Split(u.path \o <<"/">> \o elem, "/"), <<>>)
        joined == Join(segs, "/")
        slashed == IF elem # <<>> /\ elem[Len(elem)] = "/"
                      /\ (joined = <<>> \/ joined[Len(joined)] # "/")
                   THEN joined \o <<"/">> ELSE joined
        rooted == IF (u.host # "" \/ (u.path # <<>> /\ Head(u.path) = "/"))
                     /\ slashed # <<>> /\ Head(slashed) # "/"
                  THEN <<"/">> \o slashed ELSE slashed
    IN  [ok |-> u.ok,
         url |-> [scheme |-> u.scheme, host |-> u.host,
                  path |-> EscapePath(rooted), query |-> <<>>]]

\* The names that may key Query, Headers and Forms, in byte order
NameOrder == << <<"X-Trace">>, <<"content-type">>, <<"f">>, <<"q">>, <<"x">>, <<"y">> >>

SortedNames(names) == SelectSeq(NameOrder, LAMBDA n : n \in names)

RECURSIVE EncodePairs(_, _)
\* url.Values.Encode for one value a key: key=value joined by "&", keys sorted
EncodePairs(names, texts) ==
    IF names = <<>> THEN <<>>
    ELSE Escape(Head(names)) \o <<"=">> \o Escape(texts[Head(names)])
            \o (IF Len(names) > 1 THEN <<"&">> ELSE <<>>)
            \o EncodePairs(Tail(names), texts)

\* part_000:117-123
QueryString(arg) ==
    IF DOMAIN arg.Query # {}
    THEN EncodePairs(SortedNames(DOMAIN arg.Query),
                     [n \in DOMAIN arg.Query |-> FormatV(arg.Query[n])])
    ELSE <<>>

\* part_000:164-173: a map value is sent as JSON, any other through %v
FormValue(v) == IF v.kind = "object" THEN JSONMarshal(v) ELSE FormatV(v)

\* part_000:162-176
FormEncoded(arg) ==
    EncodePairs(SortedNames(DOMAIN arg.Forms),
                [n \in DOMAIN arg.Forms |-> FormValue(arg.Forms[n])])

\* textproto.CanonicalMIMEHeaderKey on the header names of the model
CanonicalHeaderKey(name) ==
    CASE name = <<"content-type">> -> "Content-Type"
      [] name = <<"X-Trace">> -> "X-Trace"
      [] OTHER -> name[1]

RECURSIVE AddHeaders(_, _, _)
\* part_000:142-144: Header.Add appends under the canonical key
AddHeaders(header, names, values) ==
    IF names = <<>> THEN header
    ELSE LET key == CanonicalHeaderKey(Head(names))
         IN  AddHeaders(Put(header, key,
                            Append(Get(header, key, <<>>), FormatV(values[Head(names)]))),
                        Tail(names), values)

\* Header.Set replaces what the canonical key holds
SetHeader(header, key, value) == Put(header, key, <<value>>)

NoBody == [present |-> FALSE, bytes |-> <<>>]

\* the JSON content type added to what the caller supplied, not set over it
WithJSONContentTypeAdded(header, arg) ==
    IF arg.Body # Nil
    THEN Put(header, "Content-Type",
             Append(Get(header, "Content-Type", <<>>), <<"application/json">>))
    ELSE header

\* part_000:147-149
WithJSONContentType(header, arg) ==
    IF arg.Body # Nil THEN SetHeader(header, "Content-Type", <<"application/json">>)
    ELSE header

\* http.Request.SetBasicAuth
BasicCredentials(username, password) ==
    <<"Basic ", "base64(">> \o username \o <<":">> \o password \o <<")">>

\* the order in which either bearer token goes before the Basic credentials
WithAuthenticationBearerFirst(header, arg) ==
    IF arg.AuthToken # <<>>
    THEN SetHeader(header, "Authorization", <<"Bearer ">> \o arg.AuthToken)
    ELSE IF arg.AuthOAuth2Token # <<>>
    THEN SetHeader(header, "Authorization", <<"Bearer ">> \o arg.AuthOAuth2Token)
    ELSE IF arg.AuthUsername # <<>> /\ arg.AuthPassword # <<>>
    THEN SetHeader(header, "Authorization",
                   BasicCredentials(arg.AuthUsername, arg.AuthPassword))
    ELSE header

\* part_000:151-158
WithAuthentication(header, arg) ==
    IF arg.AuthToken # <<>>
    THEN SetHeader(header, "Authorization", <<"Bearer ">> \o arg.AuthToken)
    ELSE IF arg.AuthUsername # <<>> /\ arg.AuthPassword # <<>>
    THEN SetHeader(header, "Authorization",
                   BasicCredentials(arg.AuthUsername, arg.AuthPassword))
    ELSE IF arg.AuthOAuth2Token # <<>>
    THEN SetHeader(header, "Authorization", <<"Bearer ">> \o arg.AuthOAuth2Token)
    ELSE header

\* part_000:161, 175
WithFormContentType(header, arg) ==
    IF DOMAIN arg.Forms # {}
    THEN SetHeader(header, "Content-Type", <<"application/x-www-form-urlencoded">>)
    ELSE header

\* part_000:126-133: the reader handed to http.NewRequestWithContext
JSONBody(arg) ==
    IF arg.Body # Nil THEN [present |-> TRUE, bytes |-> JSONMarshal(arg.Body)]
    ELSE NoBody

\* the JSON body kept when form fields are present too
RequestBodyJSONFirst(arg) ==
    IF arg.Body # Nil THEN JSONBody(arg)
    ELSE IF DOMAIN arg.Forms # {} THEN [present |-> TRUE, bytes |-> FormEncoded(arg)]
    ELSE NoBody

\* part_000:161, 176: httpReq.Body is replaced, nothing else of the request is
RequestBody(arg) ==
    IF DOMAIN arg.Forms # {} THEN [present |-> TRUE, bytes |-> FormEncoded(arg)]
    ELSE JSONBody(arg)

\* part_000:107-177: the request handed to the client, or the error returned
BuildRequest(h, arg, finalPath) ==
    LET joined == JoinPath(ServerURL(arg, h.server), finalPath)
        headers == AddHeaders(EmptyMap, SortedNames(DOMAIN arg.Headers), arg.Headers)
    IN  IF ~joined.ok
        THEN [err |-> "failed to join URL path", request |-> EmptyMap]
        ELSE [err |-> "",
              request |->
                [method |-> ToUpper(h.method),
                 url |-> [joined.url EXCEPT !.query = QueryString(arg)],
                 header |-> WithFormContentType(
                               WithAuthentication(
                                  WithJSONContentType(headers, arg), arg), arg),
                 body |-> RequestBody(arg),
                 contentLength |-> Len(JSONBody(arg).bytes)]]

StatusCodes == {200, 404, 500}

\* %d of the status codes of the model
FormatD(n) == CASE n = 200 -> "200" [] n = 404 -> "404" [] n = 500 -> "500"

ResponseBodies == { <<"ok">> }

\* the result text on one line
ResultTextOneLine(status, body) ==
    <<"status code: ", FormatD(status), " ", "response body: ">> \o body

\* part_000:189
ResultText(status, body) ==
    <<"status code: ", FormatD(status), "\n", "response body: ">> \o body

NewCall(bag) ==
    [pc |-> "getArgs", bag |-> bag, todo |-> DOMAIN bag, arg |-> EmptyArgs,
     pathTodo |-> {}, finalPath |-> <<>>, request |-> EmptyMap,
     status |-> 0, response |-> <<>>, result |-> <<>>, err |-> ""]

\* part_000:213-241
GetArgsStep ==
    /\ call.pc = "getArgs"
    /\ \E k \in call.todo :
         call' = IF AssertionPanics(k, call.bag[k])
                 THEN [call EXCEPT !.pc = "panicked"]
                 ELSE [call EXCEPT !.arg = ParseArg(@, k, call.bag[k]),
                                   !.todo = @ \ {k}]
    /\ UNCHANGED <<handler, calls, walkVars, convertVars>>

\* part_000:242, 101
GetArgsReturn ==
    /\ call.pc = "getArgs"
    /\ call.todo = {}
    /\ call' = [call EXCEPT !.pc = "path", !.finalPath = handler.path,
                            !.pathTodo = DOMAIN call.arg.Path]
    /\ UNCHANGED <<handler, calls, walkVars, convertVars>>

\* part_000:102-104: one turn of the loop, in Go's map order
SubstitutePath ==
    /\ call.pc = "path"
    /\ \E name \in call.pathTodo :
         call' = [call EXCEPT
                    !.finalPath = Substitute(@, name, call.arg.Path[name]),
                    !.pathTodo = @ \ {name}]
    /\ UNCHANGED <<handler, calls, walkVars, convertVars>>

\* part_000:107-177
MakeRequest ==
    /\ call.pc = "path"
    /\ call.pathTodo = {}
    /\ LET built == BuildRequest(handler, call.arg, call.finalPath)
       IN  call' = IF built.err # ""
                   THEN [call EXCEPT !.pc = "returned", !.err = built.err]
                   ELSE [call EXCEPT !.pc = "do", !.request = built.request]
    /\ UNCHANGED <<handler, calls, walkVars, convertVars>>

\* a failure that also drops the server the closure captured
RequestFailsDroppingServer ==
    /\ call.pc = "do"
    /\ call' = [call EXCEPT !.pc = "returned", !.err = "request failed"]
    /\ handler' = [handler EXCEPT !.server = NoServer]
    /\ UNCHANGED <<calls, walkVars, convertVars>>

\* part_000:179-182: the client returns an error
RequestFails ==
    /\ call.pc = "do"
    /\ call' = [call EXCEPT !.pc = "returned", !.err = "request failed"]
    /\ UNCHANGED <<handler, calls, walkVars, convertVars>>

\* part_000:179: the client returns a response; it needs a URL with a scheme
Respond ==
    /\ call.pc = "do"
    /\ call.request.url.scheme # ""
    /\ \E status \in StatusCodes, body \in ResponseBodies :
         call' = [call EXCEPT !.pc = "read", !.status = status, !.response = body]
    /\ UNCHANGED <<handler, calls, walkVars, convertVars>>

\* part_000:185-189
ReadBody ==
    /\ call.pc = "read"
    /\ call' = [call EXCEPT !.pc = "returned",
                            !.result = ResultText(call.status, call.response)]
    /\ UNCHANGED <<handler, calls, walkVars, convertVars>>

\* part_000:185-188
ReadFails ==
    /\ call.pc = "read"
    /\ call' = [call EXCEPT !.pc = "returned", !.err = "read response error"]
    /\ UNCHANGED <<handler, calls, walkVars, convertVars>>

\* The server lists of the documents whose tools are invoked: none, one, two
InvokedServerLists ==
    { <<>>,
      <<[URL |-> <<"https", "://", "api.example.com">>]>>,
      <<[URL |-> <<"https", "://", "api.example.com">>],
        [URL |-> <<"https", "://", "b.example.com">>]>> }

\* The document of an invoked tool: one operation, converted by Convert
InvokedDocument(sv, o) ==
    [loaded |-> TRUE, hasInfo |-> TRUE, servers |-> sv,
     paths |-> Put(EmptyMap, o.path,
                   Put(EmptyMap, IF o.method = "get" THEN "Get" ELSE "Post",
                       [OperationID |-> <<>>]))]

InvokeInit ==
    /\ \E sv \in InvokedServerLists, o \in InvokedOperations :
         /\ doc = InvokedDocument(sv, o)
         /\ handler = newHandler(DeclaredServer(sv), o.path, o.method)
    /\ options = [ToolNamePrefix |-> <<>>]
    /\ tools = EmptyMap
    /\ added = <<>>
    /\ pending = {}
    /\ convert = "returned"
    /\ build = NoBuild
    /\ \E chosen \in {c \in SUBSET (DOMAIN BagPool) : Cardinality(c) <= MaxBagKeys} :
         \E second \in SUBSET {i \in chosen : Len(BagPool[i].values) > 1} :
            call = NewCall(Bag(chosen, second))
    /\ calls = <<>>
    /\ WalkIdle

InvokeNext ==
    \/ GetArgsStep
    \/ GetArgsReturn
    \/ SubstitutePath
    \/ MakeRequest
    \/ RequestFails
    \/ Respond
    \/ ReadBody
    \/ ReadFails

SpecInvoke == InvokeInit /\ [][InvokeNext]_vars

-----------------------------------------------------------------------------
(* Concurrent invocations of one handler.                                  *)

\* The invocations in flight together
CallIds == {1, 2}

\* The bags of the concurrent invocations
ConcurrentBags ==
    { Bag({PoolIndex(<<"openapi", "|", "server_addr">>)},
          {PoolIndex(<<"openapi", "|", "server_addr">>)}),
      Bag({PoolIndex(<<"openapi", "|", "server_addr">>), PoolIndex(<<"body">>)}, {}),
      Bag({PoolIndex(<<"openapi", "|", "auth_token">>),
           PoolIndex(<<"openapi", "|", "auth_apikey">>)}, {}),
      Bag({PoolIndex(<<"path", "|", "x">>), PoolIndex(<<"path", "|", "y">>)},
          {PoolIndex(<<"path", "|", "x">>)}) }

ConcurrentServerLists == { <<>>, <<[URL |-> <<"https", "://", "api.example.com">>]>> }

Finished(c) == c.pc \in {"returned", "panicked"}

\* a switch after which the invocation running on finds the arguments of
\* the one taken off
SwitchSharingArgs ==
    /\ call.pc # "none"
    /\ \E i \in DOMAIN calls :
         /\ ~Finished(calls[i])
         /\ call' = [calls[i] EXCEPT !.arg = call.arg]
         /\ calls' = [calls EXCEPT ![i] = call]
    /\ UNCHANGED <<handler, walkVars, convertVars>>

\* The scheduler takes the running invocation off and lets a waiting one
\* run on: each invocation keeps its own locals (part_000:92-189, all := )
Switch ==
    /\ call.pc # "none"
    /\ \E i \in DOMAIN calls :
         /\ ~Finished(calls[i])
         /\ call' = calls[i]
         /\ calls' = [calls EXCEPT ![i] = call]
    /\ UNCHANGED <<handler, walkVars, convertVars>>

RECURSIVE getArgs(_, _)
\* part_000:206-243: getArgs when the range loop takes the keys in `order`
getArgs(bag, order) ==
    IF order = <<>> THEN EmptyArgs
    ELSE ParseArg(getArgs(bag, SubSeq(order, 1, Len(order) - 1)),
                  order[Len(order)], bag[order[Len(order)]])

RECURSIVE SubstituteInOrder(_, _, _)
\* part_000:101-104: the loop over arg.Path taking the names in `order`
SubstituteInOrder(path, params, order) ==
    IF order = <<>> THEN path
    ELSE SubstituteInOrder(Substitute(path, Head(order), params[Head(order)]),
                           params, Tail(order))

\* What one invocation with this bag may build when it runs alone: every
\* [err, request] of part_000:92-177 over the orders of the two map loops
BuiltAlone(h, bag) ==
    UNION {{BuildRequest(h, getArgs(bag, ko), SubstituteInOrder(h.path, getArgs(bag, ko).Path, po))
              : po \in Orders(DOMAIN getArgs(bag, ko).Path)}
              : ko \in Orders(DOMAIN bag)}

ConcurrentInit ==
    /\ \E sv \in ConcurrentServerLists, o \in InvokedOperations :
         /\ doc = InvokedDocument(sv, o)
         /\ handler = newHandler(DeclaredServer(sv), o.path, o.method)
    /\ options = [ToolNamePrefix |-> <<>>]
    /\ tools = EmptyMap
    /\ added = <<>>
    /\ pending = {}
    /\ convert = "returned"
    /\ build = NoBuild
    /\ \E bags \in [CallIds -> ConcurrentBags] :
         /\ call = NewCall(bags[1])
         /\ calls = [i \in 1..(Cardinality(CallIds) - 1) |-> NewCall(bags[i + 1])]
    /\ WalkIdle

ConcurrentNext ==
    \/ GetArgsStep
    \/ GetArgsReturn
    \/ SubstitutePath
    \/ MakeRequest
    \/ RequestFails
    \/ Respond
    \/ ReadBody
    \/ ReadFails
    \/ Switch

SpecConcurrent == ConcurrentInit /\ [][ConcurrentNext]_vars

-----------------------------------------------------------------------------
(* convertOperation on one operation, step by step.                        *)

MaxParams == 2

\* openapi3.Schema as far as convertParameters and convertRequestBody read it:
\* Items and Properties say whether the schema has an item schema and
\* properties
NoSchema == [Type |-> "nil"]

SchemaOf(type, items, properties, enum, example) ==
    [Type |-> type, Items |-> items, Properties |-> properties,
     Enum |-> enum, Example |-> example]

StringSchema == SchemaOf("string", FALSE, FALSE, <<>>, Nil)
IntegerSchema == SchemaOf("integer", FALSE, FALSE, <<Num(<<"10">>), Num(<<"20">>)>>, Num(<<"10">>))
ArraySchema == SchemaOf("array", TRUE, FALSE, <<>>, Nil)
ObjectSchema == SchemaOf("object", FALSE, TRUE, <<>>, Nil)
\* type array without an item schema (schema.Items == nil)
BareArraySchema == SchemaOf("array", FALSE, FALSE, <<>>, Nil)

\* a parameter reference whose Value is nil
NilParameter == [In |-> "", Name |-> "", Description |-> <<>>, Required |-> FALSE,
                 Schema |-> NoSchema, Value |-> FALSE]

Parameter(in, name, required, schema) ==
    [In |-> in, Name |-> name, Description |-> <<name>>, Required |-> required,
     Schema |-> schema, Value |-> TRUE]

ParameterPool ==
    { Parameter("query", "limit", TRUE, IntegerSchema),
      Parameter("header", "tags", FALSE, ArraySchema),
      Parameter("path", "id", TRUE, NoSchema),
      Parameter("body", "payload", TRUE, ObjectSchema),
      NilParameter }

\* operation.Parameters: lists that declare no parameter twice
ParameterLists ==
    {ps \in UNION {[1..k -> ParameterPool] : k \in 0..MaxParams} :
        \A i, j \in DOMAIN ps : i # j => ps[i] # ps[j]}

\* operation.RequestBody: none, or its description, required flag and content
NoRequestBody == [Value |-> FALSE]

RequestBodyOf(required, content) ==
    [Value |-> TRUE, Description |-> <<"the pet">>, Required |-> required,
     Content |-> content]

RequestBodies ==
    { NoRequestBody,
      RequestBodyOf(TRUE, Put(EmptyMap, "application/json", ObjectSchema)),
      RequestBodyOf(FALSE, Put(Put(EmptyMap, "application/json", NoSchema),
                               "application/xml", BareArraySchema)),
      RequestBodyOf(TRUE, Put(Put(EmptyMap, "application/json", ArraySchema),
                              "application/xml", StringSchema)) }

\* components.securitySchemes of the document
SecuritySchemes ==
    [n \in {"basicAuth", "bearerAuth", "token", "oauth", "digest", "custom"} |->
        CASE n = "basicAuth" -> [Type |-> "http", Scheme |-> "basic", In |-> "", Name |-> ""]
          [] n = "bearerAuth" -> [Type |-> "http", Scheme |-> "bearer", In |-> "", Name |-> ""]
          [] n = "token" -> [Type |-> "apiKey", Scheme |-> "", In |-> "header", Name |-> "X-Token"]
          [] n = "oauth" -> [Type |-> "oauth2", Scheme |-> "", In |-> "", Name |-> ""]
          [] n = "digest" -> [Type |-> "http", Scheme |-> "digest", In |-> "", Name |-> ""]
          [] n = "custom" -> [Type |-> "mutualTLS", Scheme |-> "", In |-> "", Name |-> ""]]

\* a security requirement: scheme name -> scopes
Requirement(name, scopes) == Put(EmptyMap, name, scopes)

\* operation.Security: the requirement lists of the model; "missing" names no
\* scheme of the document
SecurityLists ==
    { <<>>,
      <<Requirement("basicAuth", <<>>)>>,
      <<Requirement("bearerAuth", <<>>)>>,
      <<Requirement("token", <<>>)>>,
      <<Requirement("oauth", <<"read", "write">>)>>,
      <<Requirement("digest", <<>>)>>,
      <<Requirement("custom", <<>>)>>,
      <<Requirement("missing", <<>>)>>,
      <<Put(Requirement("bearerAuth", <<>>), "token", <<>>)>>,
      <<Requirement("basicAuth", <<>>), Requirement("oauth", <<>>)>> }

\* operation.Responses: nil, or status code -> response
NoResponses == [Value |-> FALSE]

Response(description, content) == [Description |-> description, Content |-> content]

ResponsesPool ==
    { NoResponses,
      [Value |-> TRUE,
       Map |-> Put(EmptyMap, "200", Response(<<"OK">>, EmptyMap))],
      [Value |-> TRUE,
       Map |-> Put(Put(EmptyMap, "200",
                       Response(<<"OK">>, Put(EmptyMap, "application/json", StringSchema))),
                   "404", Response(<<"Not found">>, EmptyMap))] }

BuiltOperations ==
    [OperationID : {<<>>}, Summary : {<<"List pets">>},
     Parameters : ParameterLists, RequestBody : RequestBodies,
     Security : SecurityLists, Responses : ResponsesPool]

\* the property options of one argument; nested says which walker function
\* gave the nested schema: "items", "properties" or "none"
NoOptions ==
    [description |-> <<>>, required |-> FALSE, default |-> NoDefault,
     enum |-> <<>>, nested |-> "none"]

\* part_000:860-877: mcp.WithNumber serves integer and number
createToolOption(t, name, propertyOptions) ==
    [name |-> name,
     type |-> IF t = "integer" THEN "number" ELSE t,
     description |-> propertyOptions.description,
     required |-> propertyOptions.required,
     default |-> propertyOptions.default,
     enum |-> propertyOptions.enum,
     nested |-> propertyOptions.nested]

\* part_000:540-559
ParameterType(schema) ==
    IF schema.Type = "nil" THEN "string"
    ELSE IF schema.Type = "array" /\ schema.Items THEN "array"
    ELSE IF schema.Type = "object" /\ schema.Properties THEN "object"
    ELSE IF schema.Type \in {"integer", "number", "boolean"} THEN schema.Type
    ELSE "string"

\* part_000:532-580
ParameterOptions(param) ==
    LET schema == param.Schema IN
    [description |-> param.Description,
     required |-> param.Required,
     default |-> IF schema.Type # "nil" /\ schema.Example # Nil
                 THEN <<FormatV(schema.Example)>> ELSE NoDefault,
     enum |-> IF schema.Type = "nil" THEN <<>>
              ELSE [i \in 1..Len(schema.Enum) |-> FormatV(schema.Enum[i])],
     nested |-> IF ParameterType(schema) = "array" THEN "items"
                ELSE IF ParameterType(schema) = "object" THEN "properties"
                ELSE "none"]

\* the key that qualifies a body parameter like any other
ParameterKeyQualified(param) == <<param.In, "|", param.Name>>

\* part_000:584-588
ParameterKey(param) ==
    IF param.In = "body" THEN <<param.In>> ELSE <<param.In, "|", param.Name>>

RECURSIVE convertParameters(_)
\* part_000:523-592
convertParameters(parameters) ==
    IF parameters = <<>> THEN <<>>
    ELSE IF ~Head(parameters).Value THEN convertParameters(Tail(parameters))
    ELSE <<createToolOption(ParameterType(Head(parameters).Schema),
                            ParameterKey(Head(parameters)),
                            ParameterOptions(Head(parameters)))>>
            \o convertParameters(Tail(parameters))

\* part_000:484-502
BodyType(schema) ==
    IF schema.Type = "array" /\ schema.Items THEN "array"
    ELSE IF schema.Type = "object" \/ schema.Properties THEN "object"
    ELSE IF schema.Type \in {"string", "integer", "number", "boolean"} THEN schema.Type
    ELSE "object"

\* part_000:474-502
BodyOptions(requestBody, schema) ==
    [description |-> requestBody.Description,
     required |-> requestBody.Required,
     default |-> NoDefault,
     enum |-> <<>>,
     nested |-> IF schema.Type = "array" /\ schema.Items THEN "items"
                ELSE IF schema.Type = "object" \/ schema.Properties THEN "properties"
                ELSE "none"]

RECURSIVE convertRequestBody(_, _)
\* part_000:465-509, the content entries taken in `order`
convertRequestBody(requestBody, order) ==
    IF order = <<>> THEN <<>>
    ELSE LET schema == requestBody.Content[Head(order)] IN
         IF schema.Type = "nil" THEN convertRequestBody(requestBody, Tail(order))
         ELSE <<createToolOption(BodyType(schema), <<"body">>,
                                 BodyOptions(requestBody, schema))>>
                 \o convertRequestBody(requestBody, Tail(order))

AuthOption(name, description) ==
    createToolOption("string", name, [NoOptions EXCEPT !.description = description,
                                                       !.required = TRUE])

\* the mapping that gives a basic scheme the username alone and an unknown
\* scheme type a token
convertSecuritySchemeLoose(securitySchemes, schemeName, scopes) ==
    IF schemeName \notin DOMAIN securitySchemes THEN <<>>
    ELSE IF securitySchemes[schemeName].Scheme = "basic"
    THEN <<AuthOption(<<"openapi", "|", "auth_username">>,
                      <<"Username for Basic authentication">>)>>
    ELSE <<AuthOption(<<"openapi", "|", "auth_token">>,
                      <<"Bearer token for authentication">>)>>

\* part_000:420-457: one (schemeName, scopes) entry of a requirement
convertSecurityScheme(securitySchemes, schemeName, scopes) ==
    IF schemeName \notin DOMAIN securitySchemes THEN <<>>
    ELSE LET scheme == securitySchemes[schemeName] IN
         IF scheme.Type = "apiKey"
         THEN <<AuthOption(<<"openapi", "|", "auth_" \o schemeName>>,
                           <<"API Key for ", schemeName, " authentication (in ",
                             scheme.In, " named '", scheme.Name, "')">>)>>
         ELSE IF scheme.Type = "http" /\ scheme.Scheme = "basic"
         THEN <<AuthOption(<<"openapi", "|", "auth_username">>,
                           <<"Username for Basic authentication">>),
                AuthOption(<<"openapi", "|", "auth_password">>,
                           <<"Password for Basic authentication">>)>>
         ELSE IF scheme.Type = "http" /\ scheme.Scheme = "bearer"
         THEN <<AuthOption(<<"openapi", "|", "auth_token">>,
                           <<"Bearer token for authentication">>)>>
         ELSE IF scheme.Type = "oauth2"
         THEN <<AuthOption(<<"openapi", "|", "auth_oauth2_token">>,
                           IF Len(scopes) > 0
                           THEN <<"OAuth2 token with scopes: ">> \o Join(
                                   [i \in 1..Len(scopes) |-> <<scopes[i]>>], ", ")
                           ELSE <<"OAuth2 token for authentication">>)>>
         ELSE <<>>

RECURSIVE convertRequirement(_, _, _)
\* part_000:419-458: the entries of one requirement taken in `order`
convertRequirement(securitySchemes, requirement, order) ==
    IF order = <<>> THEN <<>>
    ELSE convertSecurityScheme(securitySchemes, Head(order), requirement[Head(order)])
            \o convertRequirement(securitySchemes, requirement, Tail(order))

\* part_000:880-897
getDescription(operation) ==
    Join(SelectSeq(<<operation.Summary>>, LAMBDA part : part # <<>>), "\n\n")

\* json.Marshal of what processSchemaProperty returns for a schema without
\* title, description or children: {"type":"<type>"}
MarshalProperty(schema) ==
    <<"{", "\"", "type", "\"", ":", "\"", schema.Type, "\"", "}">>

RECURSIVE ContentDescription(_, _)
\* part_000:384-395, the content entries taken in `order`
ContentDescription(content, order) ==
    IF order = <<>> THEN <<>>
    ELSE (IF content[Head(order)].Type = "nil" THEN <<>>
          ELSE <<", content type: ", Head(order), ", schema: ">>
                  \o MarshalProperty(content[Head(order)]))
            \o ContentDescription(content, Tail(order))

\* part_000:362-395: the line of one response; its content has at most one
\* entry in the model
ResponseLine(code, response) ==
    <<"- status: ", code, ", description: ">> \o response.Description
       \o ContentDescription(response.Content,
             IF DOMAIN response.Content = {} THEN <<>>
             ELSE <<CHOOSE ct \in DOMAIN response.Content : TRUE>>)

\* part_000:352-401, the responses taken in `order`
generateResponseDescription(responses, order) ==
    Join([i \in 1..Len(order) |-> ResponseLine(order[i], responses[order[i]])], "\n\n")

\* part_000:332-340
Description(operation, order) ==
    IF operation.Responses.Value
       /\ generateResponseDescription(operation.Responses.Map, order) # <<>>
    THEN getDescription(operation) \o <<"\n\nResponses:\n\n">>
            \o generateResponseDescription(operation.Responses.Map, order)
    ELSE getDescription(operation)

RECURSIVE RequiredNames(_)
\* mcp: a required property appends its name to InputSchema.Required
RequiredNames(args) ==
    IF args = <<>> THEN <<>>
    ELSE (IF Head(args).required THEN <<Head(args).name>> ELSE <<>>)
            \o RequiredNames(Tail(args))

RECURSIVE Properties(_)
\* mcp: each option stores its schema under InputSchema.Properties[name]
Properties(args) ==
    IF args = <<>> THEN EmptyMap
    ELSE Put(Properties(SubSeq(args, 1, Len(args) - 1)),
             args[Len(args)].name, args[Len(args)])

\* part_000:342-346: mcp.NewTool applies the options in order
NewTool(toolName, args, description) ==
    [name |-> toolName, description |-> description,
     properties |-> Properties(args), required |-> RequiredNames(args)]

BuiltPath == <<"/", "pets">>

BuiltServerLists == { <<>>, <<[URL |-> <<"https", "://", "api.example.com">>]>> }

\* part_000:278
StartBuild(operation) ==
    [pc |-> "parameters", operation |-> operation, args |-> <<>>,
     todo |-> <<>>, results |-> <<>>]

\* part_000:285
BuildParameters ==
    /\ build.pc = "parameters"
    /\ build' = [build EXCEPT !.pc = "requestBody",
                              !.args = convertParameters(build.operation.Parameters)]
    /\ UNCHANGED <<doc, options, tools, added, pending, convert, walkVars, invokeVars>>

\* part_000:291-297
BuildRequestBody ==
    /\ build.pc = "requestBody"
    /\ IF build.operation.RequestBody.Value
       THEN \E order \in Orders(DOMAIN build.operation.RequestBody.Content) :
               build' = [build EXCEPT
                           !.pc = "serverAddr",
                           !.args = @ \o convertRequestBody(build.operation.RequestBody, order)]
       ELSE build' = [build EXCEPT !.pc = "serverAddr"]
    /\ UNCHANGED <<doc, options, tools, added, pending, convert, walkVars, invokeVars>>

\* part_000:300-326, 408-415
BuildServerAddr ==
    /\ build.pc = "serverAddr"
    /\ build' = [build EXCEPT
                   !.pc = "security",
                   !.args = Append(@, ServerAddrOption(doc.servers)),
                   !.todo = IF DOMAIN doc.securitySchemes = {} THEN <<>>
                            ELSE build.operation.Security]
    /\ UNCHANGED <<doc, options, tools, added, pending, convert, walkVars, invokeVars>>

\* part_000:418-459: one turn of the outer loop
BuildRequirement ==
    /\ build.pc = "security"
    /\ build.todo # <<>>
    /\ \E order \in Orders(DOMAIN Head(build.todo)) :
          build' = [build EXCEPT
                      !.args = @ \o convertRequirement(doc.securitySchemes,
                                                       Head(build.todo), order),
                      !.todo = Tail(@)]
    /\ UNCHANGED <<doc, options, tools, added, pending, convert, walkVars, invokeVars>>

\* part_000:332-348
BuildTool ==
    /\ build.pc = "security"
    /\ build.todo = <<>>
    /\ \E order \in Orders(IF build.operation.Responses.Value
                           THEN DOMAIN build.operation.Responses.Map ELSE {}) :
          build' = [build EXCEPT
                      !.pc = "built",
                      !.results = Append(@,
                          NewTool(ToolName(BuiltPath, "get", build.operation),
                                  build.args, Description(build.operation, order)))]
    /\ UNCHANGED <<doc, options, tools, added, pending, convert, walkVars, invokeVars>>

\* convertOperation is called again on the same operation
BuildAgain ==
    /\ build.pc = "built"
    /\ Len(build.results) < 2
    /\ build' = [StartBuild(build.operation) EXCEPT !.results = build.results]
    /\ UNCHANGED <<doc, options, tools, added, pending, convert, walkVars, invokeVars>>

BuildInit ==
    /\ \E sv \in BuiltServerLists, defined \in BOOLEAN :
          doc = [loaded |-> TRUE, hasInfo |-> TRUE, servers |-> sv, paths |-> EmptyMap,
                 securitySchemes |-> IF defined THEN SecuritySchemes ELSE EmptyMap]
    /\ options = [ToolNamePrefix |-> <<>>]
    /\ tools = EmptyMap
    /\ added = <<>>
    /\ pending = {}
    /\ convert = "looping"
    /\ \E operation \in BuiltOperations : build = StartBuild(operation)
    /\ WalkIdle
    /\ InvokeIdle

BuildNext ==
    \/ BuildParameters
    \/ BuildRequestBody
    \/ BuildServerAddr
    \/ BuildRequirement
    \/ BuildTool
    \/ BuildAgain

SpecBuild == BuildInit /\ [][BuildNext]_vars

-----------------------------------------------------------------------------
(* Properties of the schema walker (SpecWalk).                             *)

\* C1: for every schema graph with a cycle through properties, items or
\* composition children, whatever titles its nodes carry and whichever walker
\* function is entered first, the walk started with an empty visited set
\* terminates: no activation is ever nested in an activation of the same
\* function on the same node with the same visited set.
C1_WalkTerminates == ~Diverges

\* the number of sibling slots of schema s (properties, or members of the
\* composition lists) that refer to node n
SiblingReferences(s, n) ==
    Cardinality({name \in DOMAIN s.Properties : s.Properties[name] = n})
      + Cardinality({i \in DOMAIN s.OneOf : s.OneOf[i] = n})
      + Cardinality({i \in DOMAIN s.AnyOf : s.AnyOf[i] = n})
      + Cardinality({i \in DOMAIN s.AllOf : s.AllOf[i] = n})

\* the activation at depth i walks a titled node that two sibling slots of
\* its caller's node refer to, and no activation above it walks a node of
\* that title
SharedSiblingAt(i) ==
    /\ i \in 2..Len(stack)
    /\ stack[i].fn = "property"
    /\ stack[i].dest.key \in {"properties"} \cup ListSlots
    /\ schemas[stack[i].node].Title # ""
    /\ SiblingReferences(schemas[stack[i - 1].node], stack[i].node) >= 2
    /\ \A j \in 1..(i - 1) :
          schemas[stack[j].node].Title # schemas[stack[i].node].Title

\* C2: when two sibling branches (two properties of one object, or two
\* composition members) refer to the same titled sub-schema and the
\* sub-schema is not on the path above them, the walk expands it in both
\* branches: neither occurrence is the circular-reference stub.
C2_SiblingBranchesExpand ==
    \A i \in 1..Len(stack) : SharedSiblingAt(i) => ~stack[i].stub

\* the activation on top of the stack is a processSchemaProperty call made
\* by another activation and has reached its return statement
AboutToReturn ==
    /\ walk = "running"
    /\ Len(stack) >= 2
    /\ Top.fn = "property"
    /\ Top.comp = <<>>
    /\ Top.props = {}
    /\ Top.items = None

\* the visited set of the activation that made the call on top of the stack
CallerVisited == heap[stack[Len(stack) - 1].visited]

\* C19: processSchemaProperty leaves the visited set its caller passed
\* unchanged: when the call returns, the caller's set holds exactly the
\* titles it held when the call was made.
C19_CallerVisitedUnchanged == AboutToReturn => CallerVisited = Top.entry

\* C20: a processSchemaProperty call on a node whose non-empty title is in
\* the visited set it receives returns exactly the descriptor with the three
\* entries type "reference", title, and description "Circular reference to "
\* followed by the title, and makes no recursive call; every other call
\* returns something else.
C20_CircularStub ==
    \A i \in 1..Len(stack) :
        LET f == stack[i]
            s == schemas[f.node]
        IN  f.fn = "property" =>
              /\ f.stub <=> (s.Title # "" /\ s.Title \in f.entry)
              /\ f.stub =>
                    /\ i = Len(stack)
                    /\ f.comp = <<>> /\ f.props = {} /\ f.items = None
                    /\ DOMAIN f.property = {"type", "title", "description"}
                    /\ f.property["type"] = "reference"
                    /\ f.property["title"] = s.Title
                    /\ f.property["description"] =
                          <<"Circular reference to ", s.Title>>
              /\ ~f.stub => Get(f.property, "type", "") # "reference"

\* a titled object whose property refers to the object itself: the second
\* occurrence on the path is the stub
C20_Witness ==
    /\ Len(stack) >= 2
    /\ Top.fn = "property"
    /\ Top.stub
    /\ stack[Len(stack) - 1].fn = "property"
    /\ stack[Len(stack) - 1].node = Top.node
    /\ Top.dest.key = "properties"
    /\ schemas[Top.node].Type = "object"
    /\ Top.property = CircularReference(schemas[Top.node].Title)

\* the activation f walks a node that declares properties but no type, and
\* is not cut short by the circular-reference stub
UntypedWithProperties(f) ==
    /\ schemas[f.node].Type = ""
    /\ DOMAIN schemas[f.node].Properties # {}
    /\ ~f.stub

\* C21: a node with non-empty properties and no declared type is walked as
\* an object: the descriptor built for it has a "properties" entry, and when
\* the activation returns that entry has one member for every named property.
C21_UntypedObjectWalked ==
    \A i \in 1..Len(stack) :
        UntypedWithProperties(stack[i]) =>
            /\ "properties" \in DOMAIN stack[i].property
            /\ (i = Len(stack) /\ Top.comp = <<>> /\ Top.props = {}
                    /\ Top.items = None) =>
                  DOMAIN Top.property["properties"]
                      = DOMAIN schemas[Top.node].Properties

\* the nodes that the slots of node m refer to
Children(m) ==
    ({schemas[m].Properties[k] : k \in DOMAIN schemas[m].Properties}
        \cup {schemas[m].OneOf[k] : k \in DOMAIN schemas[m].OneOf}
        \cup {schemas[m].AnyOf[k] : k \in DOMAIN schemas[m].AnyOf}
        \cup {schemas[m].AllOf[k] : k \in DOMAIN schemas[m].AllOf}
        \cup {schemas[m].Items, schemas[m].Not, schemas[m].AdditionalProperties})
      \ {None}

\* C26: the walker tells nodes apart by title only: a processSchemaProperty
\* call is answered with the reference stub exactly when the node has a
\* title that the visited set it receives holds, whichever node brought the
\* title there; a node without title is never stubbed and the empty title
\* is in no visited set.
C26_CycleDetectionByTitle ==
    /\ \A i \in 1..Len(stack) :
          stack[i].fn = "property" =>
             /\ (schemas[stack[i].node].Title # ""
                   /\ schemas[stack[i].node].Title \in stack[i].entry) => stack[i].stub
             /\ schemas[stack[i].node].Title = "" => ~stack[i].stub
             /\ stack[i].stub => stack[i].property["title"] \in stack[i].entry
    /\ \A r \in DOMAIN heap :
          /\ "" \notin heap[r]
          /\ heap[r] \subseteq {schemas[n].Title : n \in Nodes}

\* a node that refers to nothing is stubbed below a different node of the
\* same title, while no activation on the path walks the node itself
C26_Witness ==
    /\ Len(stack) >= 2
    /\ Top.stub
    /\ \A j \in 1..(Len(stack) - 1) : stack[j].node # Top.node
    /\ \E j \in 1..(Len(stack) - 1) :
          schemas[stack[j].node].Title = schemas[Top.node].Title
    /\ Children(Top.node) = {}

-----------------------------------------------------------------------------
(* Properties of the tool builder (SpecConvert).                           *)

ServerAddrArgs(tool) ==
    SelectSeq(tool.args, LAMBDA a : a.name = <<"openapi", "|", "server_addr">>)

DeclaredURLs == [i \in 1..Len(doc.servers) |-> doc.servers[i].URL]

\* C6: the generated openapi|server_addr argument follows the declared
\* server count: none gives a required string without enum or default; one
\* gives an optional string whose default is that URL and whose enum is
\* exactly that URL; two or more give a required string whose enum is the
\* declared URLs in order, without default.
C6_ServerAddrArgument ==
    \A i \in 1..Len(added) :
        LET as == ServerAddrArgs(added[i].tool) IN
        /\ Len(as) = 1
        /\ as[1].type = "string"
        /\ Len(doc.servers) = 0 =>
              as[1].required /\ as[1].enum = <<>> /\ as[1].default = <<>>
        /\ Len(doc.servers) = 1 =>
              /\ ~as[1].required
              /\ as[1].default = <<doc.servers[1].URL>>
              /\ as[1].enum = <<doc.servers[1].URL>>
        /\ Len(doc.servers) >= 2 =>
              as[1].required /\ as[1].enum = DeclaredURLs /\ as[1].default = <<>>

C6_Witness ==
    /\ convert = "returned"
    /\ Len(doc.servers) = 1
    /\ Len(added) >= 1
    /\ ~ServerAddrArgs(added[1].tool)[1].required

\* C9: across the operations of one document the generated tool names are
\* pairwise distinct, so the number of tools registered by Convert equals
\* the number of (path, method) operations and no registration overwrites
\* an earlier one.
C9_ToolNamesDistinct ==
    /\ \A i, j \in 1..Len(added) :
          i # j => added[i].tool.name # added[j].tool.name
    /\ convert = "returned" => Cardinality(DOMAIN tools) = Cardinality(Operations)

\* the path part of a derived name as the claim states it
ClaimedPathName(path) ==
    IF path = <<"/">> THEN <<"root">>
    ELSE Remove(Remove(Join(Split(Trim(path, "/"), "/"), "_"), "{"), "}")

ClaimedOperationID(path, method, operation) ==
    IF operation.OperationID # <<>> THEN operation.OperationID
    ELSE <<ToLower(method), "_">> \o ClaimedPathName(path)

\* C10: the tool name is the configured prefix followed by the explicit
\* operation id when it is non-empty, and otherwise by the lowercased
\* method, "_" and the path segments joined by "_" with braces removed,
\* where the root path "/" gives the path part "root".
C10_ToolNameDerivation ==
    \A i \in 1..Len(added) :
        added[i].tool.name =
            options.ToolNamePrefix
              \o ClaimedOperationID(added[i].path, added[i].method,
                    getOperations(doc.paths[added[i].path])[added[i].method])

\* the operations AddTool has been called for
Registered == {[path |-> added[i].path, method |-> added[i].method] : i \in 1..Len(added)}

\* C18: Convert is all-or-nothing: when it returns an error (no document
\* loaded or no info section; no operation fails to convert) it has
\* registered no tool and returns no server; when it returns a server every
\* operation of every path has been converted and registered.
C18_AllOrNothing ==
    /\ convert = "failed" => added = <<>> /\ tools = EmptyMap
    /\ (convert # "idle" /\ (~doc.loaded \/ ~doc.hasInfo)) => convert = "failed"
    /\ (doc.loaded /\ doc.hasInfo) => convert # "failed"
    /\ convert = "returned" =>
          /\ Registered = Operations
          /\ Len(added) = Cardinality(Operations)
          /\ \A i \in 1..Len(added) :
                added[i].tool = convertOperation(added[i].path, added[i].method,
                       getOperations(doc.paths[added[i].path])[added[i].method])

C18_Witness ==
    /\ convert = "returned"
    /\ Cardinality(Operations) = 3
    /\ Registered = Operations

-----------------------------------------------------------------------------
(* Properties of the request invoker (SpecInvoke).                         *)

\* a request has been built and handed to the client
Issued == call.pc \in {"do", "read", "returned"} /\ DOMAIN call.request # {}

BagHas(k) == k \in DOMAIN call.bag

ServerAddrKey == <<"openapi", "|", "server_addr">>
AuthTokenKey == <<"openapi", "|", "auth_token">>
AuthUsernameKey == <<"openapi", "|", "auth_username">>
AuthPasswordKey == <<"openapi", "|", "auth_password">>
AuthOAuth2TokenKey == <<"openapi", "|", "auth_oauth2_token">>
BodyKey == <<"body">>

\* the bag holds a body value; JSON null decodes to Go's nil, which is no body
HasBody == BagHas(BodyKey) /\ call.bag[BodyKey] # Nil

FormKeys == {k \in DOMAIN call.bag : HasPrefix(k, <<"formData", "|">>)}

RECURSIVE SubstituteAll(_, _)
\* the template with every {name} for which the bag holds path|name replaced
\* by the stringified value, in one pass
SubstituteAll(template, bag) ==
    IF template = <<>> THEN <<>>
    ELSE IF /\ Len(template) >= 3
            /\ template[1] = "{"
            /\ template[3] = "}"
            /\ <<"path", "|", template[2]>> \in DOMAIN bag
         THEN FormatV(bag[<<"path", "|", template[2]>>])
                 \o SubstituteAll(SubSeq(template, 4, Len(template)), bag)
         ELSE <<Head(template)>> \o SubstituteAll(Tail(template), bag)

\* the server the claims name: the supplied address, else the one declared
ClaimedServer ==
    IF BagHas(ServerAddrKey) THEN call.bag[ServerAddrKey].val
    ELSE IF Len(doc.servers) = 1 THEN doc.servers[1].URL
    ELSE <<>>

\* C3: every {name} placeholder of the path template for which the bag
\* holds path|name is replaced by the stringified value, placeholders
\* without argument stay and cause no error, and the request is issued with
\* the operation's method to the server URL joined with the substituted
\* path.
C3_PathConstruction ==
    /\ Issued =>
          LET expected == JoinPath(ClaimedServer, SubstituteAll(handler.path, call.bag)).url
          IN  /\ call.request.method = ToUpper(handler.method)
              /\ call.request.url.scheme = expected.scheme
              /\ call.request.url.host = expected.host
              /\ call.request.url.path = expected.path
    /\ (call.pc = "returned" /\ ~Issued) => ~ParseURL(ClaimedServer).ok

AuthorizationOf(request) == Get(request.header, "Authorization", <<>>)

TokenKeys ==
    {k \in DOMAIN call.bag :
        /\ HasPrefix(k, <<"openapi", "|">>)
        /\ k \notin {ServerAddrKey, AuthUsernameKey, AuthPasswordKey, AuthOAuth2TokenKey}}

C5_ServerResolution ==
    /\ (Issued /\ (BagHas(ServerAddrKey) \/ Len(doc.servers) = 1)) =>
          /\ call.request.url.scheme = ParseURL(ClaimedServer).scheme
          /\ call.request.url.host = ParseURL(ClaimedServer).host
    /\ (call.pc = "returned" /\ ~BagHas(ServerAddrKey) /\ Len(doc.servers) # 1) =>
          /\ call.err # ""
          /\ call.err # "request failed"

C15_Outcome ==
    call.pc = "returned" =>
       /\ call.err = "" =>
             /\ call.status \in StatusCodes
             /\ call.result = <<"status code: ", FormatD(call.status), "\n",
                                "response body: ">> \o call.response
       /\ call.status = 404 /\ call.err = "" =>
             call.result = <<"status code: ", "404", "\n", "response body: ", "ok">>
       /\ call.err # "" => call.result = <<>>
       /\ ~Issued => call.err = "failed to join URL path"
       /\ (Issued /\ call.status = 0) => call.err = "request failed"
       /\ call.err \in {"", "failed to join URL path", "request failed",
                        "read response error"}

C15_Witness ==
    /\ call.pc = "returned"
    /\ call.status = 500
    /\ call.err = ""
    /\ call.result = <<"status code: ", "500", "\n", "response body: ", "ok">>

\* a document whose one security scheme, named apikey, is an API key sent
\* in the header X-Token
ApiKeySchemes ==
    Put(EmptyMap, "apikey",
        [Type |-> "apiKey", Scheme |-> "", In |-> "header", Name |-> "X-Token"])

\* the name of the argument the tool builder generates for that scheme
ApiKeyArgName == convertSecurityScheme(ApiKeySchemes, "apikey", <<>>)[1].name

\* C24: the value of the argument generated for an apiKey scheme is sent in
\* the place the scheme declares, here the header X-Token, and is not sent
\* as a bearer token in the Authorization header.
C24_ApiKeyPlacement ==
    (Issued /\ BagHas(ApiKeyArgName)) =>
        /\ Get(call.request.header, "X-Token", <<>>) = <<call.bag[ApiKeyArgName].val>>
        /\ \A i \in DOMAIN AuthorizationOf(call.request) :
              AuthorizationOf(call.request)[i] # <<"Bearer ">> \o call.bag[ApiKeyArgName].val

\* the bag without the argument k
Without(bag, k) == [x \in DOMAIN bag \ {k} |-> bag[x]]

\* argument keys the tool builder generates for a cookie, query, header and
\* formData parameter, and the server address argument
AdvertisedKeys ==
    { ParameterKey(Parameter("cookie", "c", FALSE, StringSchema)),
      ParameterKey(Parameter("query", "q", FALSE, StringSchema)),
      ParameterKey(Parameter("header", "X-Trace", FALSE, StringSchema)),
      ParameterKey(Parameter("formData", "f", FALSE, StringSchema)),
      ServerAddrOption(<<>>).name }

\* C25: every argument the generated tool advertises is recognised by
\* getArgs and affects the request: the request built from a bag is not one
\* the handler builds from the bag without that argument.
C25_NoArgumentDropped ==
    Issued =>
        \A k \in DOMAIN call.bag \cap AdvertisedKeys :
            [err |-> "", request |-> call.request]
                \notin BuiltAlone(handler, Without(call.bag, k))

\* C27: for every argument bag, also one whose openapi|* values are not
\* strings, the handler ends by returning a text result or an error to its
\* caller: getArgs never aborts the invocation with a panic.
C27_NoPanic ==
    /\ call.pc # "panicked"
    /\ call.pc = "returned" => (call.err # "" \/ call.result # <<>>)

\* C28: on every request handed to the client the declared content length
\* is the length of the payload attached (no declared length, 0, with a
\* payload attached leaves the length open); with a body and a formData|*
\* argument it is the length of the form-encoded payload.
C28_ContentLength ==
    Issued =>
        /\ (call.request.body.present /\ call.request.contentLength # 0) =>
              call.request.contentLength = Len(call.request.body.bytes)
        /\ ~call.request.body.present => call.request.contentLength = 0
        /\ (HasBody /\ FormKeys # {}) =>
              call.request.contentLength = Len(FormEncoded(call.arg))

-----------------------------------------------------------------------------
(* Properties of concurrent invocations (SpecConcurrent).                  *)

\* all invocations, the running one first
Invocations == <<call>> \o calls

\* the closure Convert made for the document's operation
Closure ==
    LET path == CHOOSE p \in DOMAIN doc.paths : TRUE
        method == CHOOSE m \in DOMAIN getOperations(doc.paths[path]) : TRUE
    IN  newHandler(DeclaredServer(doc.servers), path, method)

\* invocation c has built what it builds when it runs alone, and a finished
\* c has the outcome of its own exchange
AsIfAlone(c) ==
    LET alone == BuiltAlone(Closure, c.bag) IN
    /\ c.pc \in {"path", "do", "read", "returned"} =>
          c.arg \in {getArgs(c.bag, ko) : ko \in Orders(DOMAIN c.bag)}
    /\ DOMAIN c.request # {} => [err |-> "", request |-> c.request] \in alone
    /\ c.pc = "returned" =>
          /\ c.err = "" => c.result = ResultText(c.status, c.response)
          /\ DOMAIN c.request = {} => [err |-> c.err, request |-> EmptyMap] \in alone

\* C16: an invocation that ends in an error changes nothing another
\* invocation observes: every other invocation, in flight or started later,
\* builds the request and returns the outcome it has when it runs alone.
C16_ErrorIsolation ==
    \A i \in DOMAIN Invocations :
       (Invocations[i].pc = "returned" /\ Invocations[i].err # "") =>
          /\ handler = Closure
          /\ \A j \in DOMAIN Invocations : j # i => AsIfAlone(Invocations[j])

C16_Witness ==
    \E i, j \in DOMAIN Invocations :
       /\ Invocations[i].pc = "returned"
       /\ Invocations[i].err = "request failed"
       /\ Invocations[j].pc = "returned"
       /\ Invocations[j].err = ""
       /\ Invocations[j].status = 200
       /\ Invocations[j].result = <<"status code: ", "200", "\n", "response body: ", "ok">>

\* C17: under every interleaving each invocation builds its request from
\* its own bag and from the values the closure captured, which no
\* invocation writes; no step of one invocation changes what another reads.
C17_ConcurrentInvocations ==
    /\ handler = Closure
    /\ \A i \in DOMAIN Invocations : AsIfAlone(Invocations[i])

C17_Witness ==
    \E i, j \in DOMAIN Invocations :
       /\ i # j
       /\ Invocations[i].pc = "do"
       /\ Invocations[j].pc = "do"
       /\ Invocations[i].bag # Invocations[j].bag
       /\ Invocations[i].request # Invocations[j].request

\* C23: the request an invocation builds depends on its bag alone: two
\* invocations of the handler with the same bag, whatever order each takes
\* the keys of the bag and of the path arguments in, build the same path,
\* the same Authorization header and the same payload.
C23_RequestOfBagAlone ==
    \A i, j \in DOMAIN Invocations :
        LET a == Invocations[i]
            b == Invocations[j]
        IN  (/\ a.bag = b.bag
             /\ DOMAIN a.request # {}
             /\ DOMAIN b.request # {})
            => /\ a.request.url.path = b.request.url.path
               /\ AuthorizationOf(a.request) = AuthorizationOf(b.request)
               /\ a.request.body = b.request.body

-----------------------------------------------------------------------------
(* Properties of convertOperation (SpecBuild).                             *)

\* convertOperation has produced all descriptors of the tool
AllArgs == build.pc \in {"security", "built"} /\ build.todo = <<>>

\* C11: within one tool definition the argument names are pairwise
\* distinct: no two descriptors produced by convertParameters,
\* convertRequestBody, the server-address step and
\* convertSecurityRequirements share a name.
C11_ArgumentNamesDistinct ==
    build.pc # "none" =>
       \A i, j \in 1..Len(build.args) :
          i # j => build.args[i].name # build.args[j].name

\* C12: building is idempotent: convertOperation called twice on the same
\* operation of an unchanged document yields the same name, the same
\* description text, response synopsis included, and the same arguments with
\* the same type, required flag, default, enum and nested schema.
C12_BuildIdempotent ==
    (build.pc = "built" /\ Len(build.results) = 2) =>
       /\ build.results[1].name = build.results[2].name
       /\ build.results[1].description = build.results[2].description
       /\ build.results[1].properties = build.results[2].properties
       /\ build.results[1].required = build.results[2].required

\* the descriptors convertRequestBody appended to the arguments of the
\* operation being built
BodyArgs ==
    SubSeq(build.args, Len(convertParameters(build.operation.Parameters)) + 1,
           Len(build.args))

\* the content entries of the request body that have a schema, in `order`
WithSchema(requestBody, order) ==
    SelectSeq(order, LAMBDA k : requestBody.Content[k].Type # "nil")

\* C22: convertRequestBody gives one descriptor for each content entry that
\* has a schema, each named `body` and required exactly when the request
\* body is required; for a schema of type array the descriptor has type
\* array and, when there is an item schema, carries the walked items; for a
\* schema of type object it has type object and carries the walked
\* properties.
C22_RequestBodyDescriptors ==
    (build.pc = "serverAddr" /\ build.operation.RequestBody.Value) =>
        LET requestBody == build.operation.RequestBody IN
        \E order \in Orders(DOMAIN requestBody.Content) :
            LET entries == WithSchema(requestBody, order) IN
            /\ Len(BodyArgs) = Len(entries)
            /\ \A i \in 1..Len(entries) :
                  LET schema == requestBody.Content[entries[i]]
                      arg == BodyArgs[i]
                  IN  /\ arg.name = <<"body">>
                      /\ arg.required = requestBody.Required
                      /\ schema.Type = "array" =>
                            /\ arg.type = "array"
                            /\ schema.Items => arg.nested = "items"
                      /\ schema.Type = "object" =>
                            /\ arg.type = "object"
                            /\ arg.nested = "properties"

\* the auth arguments of the tool under construction, in order
AuthArgs ==
    SelectSeq(build.args,
              LAMBDA a : a.name[1] = "openapi" /\ a.name # <<"openapi", "|", "server_addr">>)

\* the argument names the claim gives one (schemeName, scopes) entry
ClaimedAuthNames(schemeName) ==
    IF schemeName \notin DOMAIN doc.securitySchemes THEN {}
    ELSE LET scheme == doc.securitySchemes[schemeName] IN
         CASE scheme.Type = "http" /\ scheme.Scheme = "basic" ->
                 {<<"openapi", "|", "auth_username">>, <<"openapi", "|", "auth_password">>}
           [] scheme.Type = "http" /\ scheme.Scheme = "bearer" ->
                 {<<"openapi", "|", "auth_token">>}
           [] scheme.Type = "apiKey" -> {<<"openapi", "|", "auth_" \o schemeName>>}
           [] scheme.Type = "oauth2" -> {<<"openapi", "|", "auth_oauth2_token">>}
           [] OTHER -> {}

\* the entries (requirement index, scheme name) of operation.Security
SecurityEntries ==
    UNION {{<<i, n>> : n \in DOMAIN build.operation.Security[i]}
              : i \in DOMAIN build.operation.Security}

RECURSIVE ClaimedAuthCount(_)
\* the number of arguments the claim gives the entries together
ClaimedAuthCount(entries) ==
    IF entries = {} THEN 0
    ELSE LET e == CHOOSE x \in entries : TRUE
         IN  Cardinality(ClaimedAuthNames(e[2])) + ClaimedAuthCount(entries \ {e})

\* C13: every (schemeName, scopes) entry contributes exactly the arguments
\* of its scheme: http basic the required strings openapi|auth_username and
\* openapi|auth_password, http bearer the one required string
\* openapi|auth_token, apiKey the one required openapi|auth_{schemeName},
\* oauth2 the one required openapi|auth_oauth2_token, an unknown type or an
\* undefined name nothing; without security schemes there is no auth
\* argument.
C13_SecurityMapping ==
    AllArgs =>
       /\ \A i \in 1..Len(AuthArgs) : AuthArgs[i].type = "string" /\ AuthArgs[i].required
       /\ {AuthArgs[i].name : i \in 1..Len(AuthArgs)}
             = UNION {ClaimedAuthNames(e[2]) : e \in SecurityEntries}
       /\ Len(AuthArgs) = ClaimedAuthCount(SecurityEntries)
       /\ DOMAIN doc.securitySchemes = {} => AuthArgs = <<>>

C13_Witness ==
    /\ build.pc = "built"
    /\ DOMAIN doc.securitySchemes # {}
    /\ DOMAIN build.operation.Security = {1}
    /\ DOMAIN build.operation.Security[1] = {"bearerAuth"}
    /\ Len(AuthArgs) = 1
    /\ AuthArgs[1].name = <<"openapi", "|", "auth_token">>

\* the declared parameters of the operation, in order
DeclaredParameters == SelectSeq(build.operation.Parameters, LAMBDA param : param.Value)

\* C14: convertParameters emits exactly one argument per declared
\* parameter, keyed location, "|", name (query|limit for the query
\* parameter limit), and keyed "body" for a parameter located in body.
C14_ArgumentNaming ==
    build.pc = "requestBody" =>
       /\ Len(build.args) = Len(DeclaredParameters)
       /\ \A i \in 1..Len(DeclaredParameters) :
             LET param == DeclaredParameters[i] IN
             /\ param.In # "body" =>
                   build.args[i].name = <<param.In, "|", param.Name>>
             /\ param.In = "body" => build.args[i].name = <<"body">>
             /\ (param.In = "query" /\ param.Name = "limit") =>
                   build.args[i].name = <<"query", "|", "limit">>

C14_Witness ==
    /\ build.pc = "requestBody"
    /\ Len(build.args) = 2
    /\ build.args[1].name = <<"query", "|", "limit">>
    /\ build.args[2].name = <<"body">>

=============================================================================
